---------------------------- MODULE Spec2Model ----------------------------
(***************************************************************************)
(* Model of the document question-answering pipeline of the repository:    *)
(*   src/src/ingest.py     Vision Describer, Page Extractor, ingest_pdf    *)
(*   src/src/kg.py         Triple Extractor, graph connection, graph ops   *)
(*   src/src/rag_chain.py  generate_answer_with_validation                 *)
(*                                                                         *)
(* Text is a sequence of one-character strings, so that strip(), split()   *)
(* and the emptiness tests of the code are computed, not assumed.          *)
(*                                                                         *)
(* The module holds five state machines over disjoint groups of variables: *)
(*   SpecRetry   one call of _analyze_image_with_gpt or                    *)
(*               extract_triples_from_text against a scripted capability   *)
(*   SpecKG      sequences of graph operations against a store that can    *)
(*               go down and come back                                     *)
(*   SpecIngest  one run of ingest_pdf over a document                     *)
(*   SpecPage    one call of _process_pdf_page                             *)
(*   SpecRag     one call of generate_answer_with_validation               *)
(***************************************************************************)
EXTENDS Integers, Sequences, FiniteSets, TLC

VARIABLES
    \* ---- retry loop (ingest.py:38-59, kg.py:47-101)
    rFn,          \* "vision" | "triples": the function under call
    rText,        \* extract_triples_from_text's argument
    rScript,      \* what the capability does at its n-th invocation
    rPc,          \* "start" | "loop" | "raising" | "done"
    rAttempt,     \* the for-loop variable `attempt`
    rInvocations, \* number of llm.invoke / llm_vision.invoke calls made
    rWaits,       \* the time.sleep arguments, in order
    rResult,      \* the value returned to the caller
    rRaised,      \* TRUE when an exception left the function
    \* ---- graph store (kg.py:10-30, 106-154, 252-343)
    _driver,      \* the module-level connection: NoDriver or TheDriver
    kStoreUp,     \* whether the Neo4j server answers
    kNodes,       \* the Entity nodes: [id, name]
    kEdges,       \* the RELATES_TO edges: [id, s, o, p, doc_id]
    kConnects,    \* number of GraphDatabase.driver(...) calls made
    kOps,         \* number of graph operations called so far
    kLast,        \* what the last graph operation did
    \* ---- Page Extractor (ingest.py:61-140)
    pPage,        \* the page handed to _process_pdf_page
    pDeep,        \* deep_ocr
    pOut,         \* what the call did, NotCalled before it
    \* ---- ingest_pdf (ingest.py:142-214)
    iDoc,         \* the document: its pages in order
    iDeep,        \* deep_ocr
    iCallback,    \* whether a progress_callback was supplied
    iPc,          \* "start" | "page" | "flush" | "close" | "done"
    iBatchStart,  \* batch_start
    iPage,        \* i
    iBatchDocs,   \* batch_docs
    iOpen,        \* whether the document handle is open
    iOpened,      \* whether fitz.open returned a handle
    iReturned,    \* the returned value, NotReturned before
    iRaised,      \* the call that raised out of ingest_pdf, "" if none
    iLog,         \* the calls made so far, in order
    \* ---- generate_answer_with_validation (rag_chain.py:138-220)
    gQuestion, gHistory, gLang,   \* question, history, answer_lang
    gDocs,        \* docs
    gKg,          \* kg_context
    gOut          \* what the call did, NoAnswer before it

retryVars == <<rFn, rText, rScript, rPc, rAttempt, rInvocations, rWaits,
               rResult, rRaised>>

kgVars == <<_driver, kStoreUp, kNodes, kEdges, kConnects, kOps, kLast>>

pageVars == <<pPage, pDeep, pOut>>

ingestVars == <<iDoc, iDeep, iCallback, iPc, iBatchStart, iPage, iBatchDocs,
                iOpen, iOpened, iReturned, iRaised, iLog>>

ragVars == <<gQuestion, gHistory, gLang, gDocs, gKg, gOut>>

vars == <<retryVars, kgVars, pageVars, ingestVars, ragVars>>

\* Python's None where a text or a list is expected (a text is a sequence of
\* one-character strings, so this is not a text).
None == <<"None">>

---------------------------------------------------------------------------
(* Text helpers: Python's str.strip, str.split(sep), str.splitlines.       *)

NL == "\n"

IsSpace(c) == c \in {" ", NL}

RECURSIVE LStrip(_)
LStrip(s) ==
    IF s = <<>> THEN <<>>
    ELSE IF IsSpace(Head(s)) THEN LStrip(Tail(s)) ELSE s

RECURSIVE RStrip(_)
RStrip(s) ==
    IF s = <<>> THEN <<>>
    ELSE IF IsSpace(s[Len(s)]) THEN RStrip(SubSeq(s, 1, Len(s) - 1)) ELSE s

Strip(s) == RStrip(LStrip(s))

Contains(s, c) == \E i \in 1..Len(s) : s[i] = c

FirstIndex(s, c) == CHOOSE i \in 1..Len(s) :
                        s[i] = c /\ \A j \in 1..(i - 1) : s[j] # c

RECURSIVE SplitOn(_, _)
SplitOn(s, sep) ==
    IF ~Contains(s, sep) THEN <<s>>
    ELSE LET i == FirstIndex(s, sep)
         IN  <<SubSeq(s, 1, i - 1)>> \o SplitOn(SubSeq(s, i + 1, Len(s)), sep)

SplitLines(s) ==
    LET parts == SplitOn(s, NL)
    IN  IF parts[Len(parts)] = <<>> THEN SubSeq(parts, 1, Len(parts) - 1)
        ELSE parts

RECURSIVE Join(_, _)
Join(parts, sep) ==
    IF parts = <<>> THEN <<>>
    ELSE IF Len(parts) = 1 THEN parts[1]
    ELSE parts[1] \o sep \o Join(Tail(parts), sep)

Map(f(_), s) == [i \in 1..Len(s) |-> f(s[i])]

RECURSIVE Concat(_)
Concat(ss) == IF ss = <<>> THEN <<>> ELSE Head(ss) \o Concat(Tail(ss))

---------------------------------------------------------------------------
(* The retry loop shared by the Vision Describer and the Triple Extractor. *)

max_retries == 12

\* An error raised by the capability, reduced to what the code reads of it:
\* whether str(e).lower() contains "429", and whether it contains "rate_limit".
Errors == [has429 : BOOLEAN, hasRateLimit : BOOLEAN]

IsRateLimitAny(e) == TRUE

\* ingest.py:49, kg.py:89: "429" in err_str or "rate_limit" in err_str
IsRateLimit(e) == e.has429 \/ e.hasRateLimit

MarkedErrors   == {e \in Errors : e.has429 \/ e.hasRateLimit}
UnmarkedErrors == {e \in Errors : ~e.has429 /\ ~e.hasRateLimit}

\* The successful responses the capability can give (response.content).
SampleOutputs ==
    { <<>>,
      <<" ">>,
      <<" ", "a", " ">>,
      <<"a", "|", "b", "|", "c">>,
      <<"a", "|", "b">>,
      <<"a", " ", "|", "b", "|", "c", NL, "x", NL, "d", "|", "e", "|", "f">>,
      <<"a", "|", "|", "c", NL, "d", "|", "e", "|", "f", NL,
        "g", "|", "h", "|", "i", "|", "j">>,
      <<NL, " ", "a", "|", " ", "b", " ", "|", "c", " ", NL, NL, " ", "|", "e", "|", "f">> }

\* A script: the capability raises failErr on its first `fails` invocations,
\* and afterwards answers `then`: a response content or an unmarked error.
Scripts ==
    [fails : 0..max_retries, failErr : MarkedErrors,
     then : ([ok : {TRUE}, content : SampleOutputs]
             \cup [ok : {FALSE}, err : UnmarkedErrors])]

\* The capability's answer to its (n+1)-th invocation.
CapabilityAnswer(script, n) ==
    IF n < script.fails THEN [ok |-> FALSE, err |-> script.failErr]
    ELSE script.then

MayRetryOnceMore(attempt) == attempt < max_retries

\* ingest.py:49, kg.py:89: `attempt < max_retries - 1`
MayRetry(attempt) == attempt < max_retries - 1

WaitTimeLinear(attempt) == (2 * attempt) + 2

\* ingest.py:50, kg.py:90
WaitTime(attempt) == (2 ^ attempt) + 2

ParseLineAnyFields(line) ==
    LET l == Strip(line)
        parts == Map(Strip, SplitOn(l, "|"))
    IN  IF l = <<>> \/ ~Contains(l, "|") THEN <<>>
        ELSE IF Len(parts) # 3 THEN <<>>
        ELSE << [s |-> parts[1], p |-> parts[2], o |-> parts[3]] >>

\* kg.py:72-84: the triples of a response content.
ParseLine(line) ==
    LET l == Strip(line)
        parts == Map(Strip, SplitOn(l, "|"))
    IN  IF l = <<>> \/ ~Contains(l, "|") THEN <<>>
        ELSE IF Len(parts) # 3 THEN <<>>
        ELSE IF parts[1] # <<>> /\ parts[2] # <<>> /\ parts[3] # <<>>
             THEN << [s |-> parts[1], p |-> parts[2], o |-> parts[3]] >>
             ELSE <<>>

ParseTriples(content) == Concat(Map(ParseLine, SplitLines(Strip(content))))

\* What a successful response makes the function return.
SuccessResult(fn, content) ==
    IF fn = "vision" THEN Strip(content)      \* ingest.py:45
    ELSE ParseTriples(content)                \* kg.py:70-84

\* ingest.py:59 returns "", kg.py:100 returns []: both the empty sequence here.
EmptyResult == <<>>

NoDriver  == "None"
TheDriver == "driver"

\* What a graph operation did: `reads` counts the MATCH statements it ran,
\* `probes` the connections it created and probed with RETURN 1, `asked`
\* whether it reached entity extraction, `rows` what the store returned,
\* `before` the edges the graph held when an upsert began, `lens` the text
\* lengths of the chunks it was given, `extracted` the 0-based indices of the
\* chunks it handed to the Triple Extractor, `collected` its all_triples
\* list, `writes` the transactions it ran.
NoOp == [op |-> "none", raised |-> FALSE, result |-> <<>>, down |-> FALSE,
         memoized |-> FALSE, reads |-> 0, extracted |-> <<>>, writes |-> <<>>,
         unchanged |-> TRUE, probes |-> 0, asked |-> FALSE, entities |-> <<>>,
         rows |-> <<>>, relevant_rows |-> <<>>, query |-> <<>>,
         entAns |-> [ok |-> FALSE, content |-> <<>>], doc_id |-> "",
         before |-> {}, lens |-> <<>>, collected |-> <<>>]

\* The graph variables while another state machine runs.
KgIdle ==
    /\ _driver = NoDriver /\ kStoreUp = TRUE /\ kNodes = {} /\ kEdges = {}
    /\ kConnects = 0 /\ kOps = 0 /\ kLast = NoOp

NotCalled == [raised |-> FALSE, docs |-> <<>>, vision |-> <<>>, files |-> <<>>,
              called |-> FALSE]

\* The Page Extractor's variables while another state machine runs.
PageIdle == pPage = <<>> /\ pDeep = FALSE /\ pOut = NotCalled

NotReturned == "None"

\* ingest_pdf's variables while another state machine runs.
IngestIdle ==
    /\ iDoc = <<>> /\ iDeep = FALSE /\ iCallback = FALSE /\ iPc = "done"
    /\ iBatchStart = 0 /\ iPage = 0 /\ iBatchDocs = <<>> /\ iOpen = FALSE
    /\ iOpened = FALSE /\ iReturned = NotReturned /\ iRaised = "" /\ iLog = <<>>

NoAnswer == [called |-> FALSE, raised |-> FALSE, answer |-> <<>>,
             confidence |-> 0, images |-> <<>>, llmCalls |-> 0]

\* generate_answer_with_validation's variables while another machine runs.
RagIdle ==
    /\ gQuestion = <<>> /\ gHistory = <<>> /\ gLang = "English"
    /\ gDocs = <<>> /\ gKg = <<>> /\ gOut = NoAnswer

TripleTexts == { <<>>, <<" ", NL>>, <<"a", " ", "b">> }

InitRetry ==
    /\ KgIdle /\ PageIdle /\ IngestIdle /\ RagIdle
    /\ rFn \in {"vision", "triples"}
    /\ rText \in (IF rFn = "triples" THEN TripleTexts ELSE {<<"a">>})
    /\ rScript \in Scripts
    /\ rPc = "start"
    /\ rAttempt = 0
    /\ rInvocations = 0
    /\ rWaits = <<>>
    /\ rResult = None
    /\ rRaised = FALSE

\* kg.py:51-52: blank text returns [] before any invocation.  The Vision
\* Describer has no such test (ingest.py:26-41).
RetryEnter ==
    /\ rPc = "start"
    /\ IF rFn = "triples" /\ Strip(rText) = <<>>
       THEN rPc' = "done" /\ rResult' = EmptyResult
       ELSE rPc' = "loop" /\ UNCHANGED rResult
    /\ UNCHANGED <<rFn, rText, rScript, rAttempt, rInvocations, rWaits, rRaised>>
    /\ UNCHANGED <<kgVars, pageVars, ingestVars, ragVars>>

\* One iteration of `for attempt in range(max_retries)`: ingest.py:41-56 and
\* kg.py:67-100.
RetryAttempt ==
    /\ rPc = "loop"
    /\ rAttempt < max_retries
    /\ LET ans == CapabilityAnswer(rScript, rInvocations)
       IN  /\ rInvocations' = rInvocations + 1
           /\ IF ans.ok
              THEN /\ rResult' = SuccessResult(rFn, ans.content)
                   /\ rPc' = "done"
                   /\ UNCHANGED <<rAttempt, rWaits>>
              ELSE IF IsRateLimit(ans.err) /\ MayRetry(rAttempt)
                   THEN \* time.sleep(wait_time); continue
                        /\ rWaits' = Append(rWaits, WaitTime(rAttempt))
                        /\ rAttempt' = rAttempt + 1
                        /\ UNCHANGED <<rPc, rResult>>
                   ELSE IF rFn = "vision"
                        THEN \* raise e (ingest.py:56)
                             /\ rPc' = "raising"
                             /\ UNCHANGED <<rAttempt, rWaits, rResult>>
                        ELSE \* return [] (kg.py:100)
                             /\ rResult' = EmptyResult
                             /\ rPc' = "done"
                             /\ UNCHANGED <<rAttempt, rWaits>>
    /\ UNCHANGED <<rFn, rText, rScript, rRaised>>
    /\ UNCHANGED <<kgVars, pageVars, ingestVars, ragVars>>

\* ingest.py:57-59: `except Exception` around the loop returns "".
VisionOuterHandler ==
    /\ rPc = "raising"
    /\ rPc' = "done"
    /\ rResult' = EmptyResult
    /\ UNCHANGED <<rFn, rText, rScript, rAttempt, rInvocations, rWaits, rRaised>>
    /\ UNCHANGED <<kgVars, pageVars, ingestVars, ragVars>>

NextRetry == RetryEnter \/ RetryAttempt \/ VisionOuterHandler

SpecRetry == InitRetry /\ [][NextRetry]_vars

RetryDone == rPc = "done"

\* The guards of RetryEnter, RetryAttempt and VisionOuterHandler.
RetryCanStep ==
    \/ rPc = "start"
    \/ rPc = "loop" /\ rAttempt < max_retries
    \/ rPc = "raising"

\* The script is "rate-limit-marked errors on the first k attempts, then success".
FailsThenSucceeds(k) == rScript.fails = k /\ rScript.then.ok

Backoff(k) == [a \in 1..k |-> (2 ^ (a - 1)) + 2]

\* The capability was reached (the Triple Extractor's text is not blank).
Reached == rFn = "vision" \/ Strip(rText) # <<>>

\* C1: when the capability raises a rate-limit-marked error on its first k
\* attempts (0 <= k <= 11) and then succeeds, the Vision Describer and the
\* Triple Extractor return the successful result after exactly k backoff
\* waits, the wait after attempt a being 2^a + 2 seconds, having invoked the
\* capability exactly k + 1 times.
C1_RetryThenSuccess ==
    \A k \in 0..11 :
        (RetryDone /\ Reached /\ FailsThenSucceeds(k)) =>
            /\ rInvocations = k + 1
            /\ rWaits = Backoff(k)
            /\ rResult = SuccessResult(rFn, rScript.then.content)
            /\ ~rRaised

C1_Witness ==
    /\ RetryDone /\ rFn = "triples" /\ FailsThenSucceeds(11)
    /\ rInvocations = 12 /\ Len(rWaits) = 11 /\ rWaits[11] = 1026
    /\ Len(rResult) = 2

\* The positions of '|' in a line.
Pipes(line) == {i \in DOMAIN line : line[i] = "|"}

\* The three fields of a line with exactly two pipes, trimmed.
FieldsOf(line) ==
    LET i == CHOOSE x \in Pipes(line) : \A y \in Pipes(line) : x <= y
        j == CHOOSE x \in Pipes(line) : \A y \in Pipes(line) : y <= x
    IN  [s |-> Strip(SubSeq(line, 1, i - 1)),
         p |-> Strip(SubSeq(line, i + 1, j - 1)),
         o |-> Strip(SubSeq(line, j + 1, Len(line)))]

\* The line splits on '|' into exactly three fields, all non-empty after
\* trimming.
WellFormed(line) ==
    /\ Cardinality(Pipes(line)) = 2
    /\ FieldsOf(line).s # <<>> /\ FieldsOf(line).p # <<>> /\ FieldsOf(line).o # <<>>

\* The Triple Extractor returned after a successful response.
TriplesParsed ==
    RetryDone /\ rFn = "triples" /\ Reached /\ rScript.then.ok /\ rScript.fails < 12

\* C14: extract_triples_from_text turns the model output into triples line
\* by line: every well-formed line yields its triple, in line order, every
\* other line is discarded, and a malformed line neither makes the call fail
\* nor drops a well-formed line.
C14_TriplesLineByLine ==
    TriplesParsed =>
        LET good == SelectSeq(SplitOn(rScript.then.content, NL), WellFormed)
        IN  /\ ~rRaised
            /\ rResult = [k \in 1..Len(good) |-> FieldsOf(good[k])]

\* A line with an empty field and a line with four fields around a
\* well-formed line.
C14_Witness ==
    /\ TriplesParsed
    /\ Len(SplitOn(rScript.then.content, NL)) = 3
    /\ ~WellFormed(SplitOn(rScript.then.content, NL)[1])
    /\ ~WellFormed(SplitOn(rScript.then.content, NL)[3])
    /\ rResult = << [s |-> <<"d">>, p |-> <<"e">>, o |-> <<"f">>] >>

\* C2: when every attempt raises a rate-limit-marked error, both functions
\* stop after exactly 12 invocations and 11 backoff waits, terminate, and
\* return the empty result without raising.  Termination: no call makes more
\* than 12 invocations, every step that is not the last makes an invocation
\* or leaves the loop, and a call that has not returned is at a statement
\* that can execute (the for loop never runs off its end).
C2_ThrottledForever ==
    /\ rInvocations <= 12
    /\ rAttempt <= rInvocations
    /\ (RetryDone \/ RetryCanStep)
    /\ (RetryDone /\ Reached /\ rScript.fails = max_retries) =>
            /\ rInvocations = 12
            /\ rWaits = Backoff(11)
            /\ rResult = EmptyResult
            /\ ~rRaised

C2_Witness ==
    /\ RetryDone /\ rFn = "vision" /\ rScript.fails = max_retries
    /\ rInvocations = 12 /\ Len(rWaits) = 11 /\ rResult = <<>>

\* C3: when the capability raises an error without rate-limit marker at any
\* attempt, both functions make no further invocation and no further backoff
\* wait, and return the empty result instead of raising.
C3_UnmarkedErrorNotRetried ==
    \A k \in 0..11 :
        (RetryDone /\ Reached /\ rScript.fails = k /\ ~rScript.then.ok) =>
            /\ rInvocations = k + 1
            /\ Len(rWaits) = k
            /\ rResult = EmptyResult
            /\ ~rRaised

C3_Witness ==
    /\ RetryDone /\ rFn = "vision" /\ rScript.fails = 2 /\ ~rScript.then.ok
    /\ rInvocations = 3 /\ rWaits = <<3, 4>> /\ rResult = <<>>

---------------------------------------------------------------------------
(* The graph store: get_driver and the three graph operations of kg.py.    *)

MaxChunks == 2      \* longest chunk list handed to upsert_kg_from_chunks
MaxOps    == 2      \* graph operations per behaviour
MaxPermuted == 4    \* largest result set returned in every order
PriorEdges == 12    \* edges a graph written by an earlier process holds

DocIds == {"d1", "d2"}
NoDoc  == ""        \* a falsy doc_id (None or "")

T1 == [s |-> <<"A">>, p |-> <<"p">>, o |-> <<"a", "b">>]
T2 == [s |-> <<"a", "b">>, p |-> <<"q">>, o |-> <<"b">>]

\* The store outlives the process: the graph an earlier process left behind,
\* PriorEdges edges of document d1 between distinct nodes.
PriorTriples ==
    [i \in 1..PriorEdges |-> [s |-> [k \in 1..i |-> "b"], p |-> <<"r">>, o |-> <<"c">>]]

\* A chunk, reduced to len(page_content) and to what
\* extract_triples_from_text returns for its text.
MIN_CHUNK_LEN == 100
ChunkKinds ==
    { [len |-> 99,  triples |-> <<T1>>],
      [len |-> 100, triples |-> <<>>],
      [len |-> 100, triples |-> <<T1>>],
      [len |-> 100, triples |-> <<T2, T1>>] }

ChunkLists == UNION {[1..n -> ChunkKinds] : n \in 0..MaxChunks}

GetDriverEveryCall(drv, up) ==
    [driver |-> IF up THEN TheDriver ELSE NoDriver, connects |-> 1]

\* kg.py:17-30.  The driver is created and probed with RETURN 1; when that
\* raises, _driver is None again.
GetDriver(drv, up) ==
    IF drv = NoDriver
    THEN [driver |-> IF up THEN TheDriver ELSE NoDriver, connects |-> 1]
    ELSE [driver |-> drv, connects |-> 0]

\* kg.py:121-131: the 0-based indices of the chunks handed to the Triple
\* Extractor, in order.
RECURSIVE ExtractedFromEvery(_, _)
ExtractedFromEvery(chunks, i) ==
    IF i >= Len(chunks) THEN <<>>
    ELSE (IF chunks[i + 1].len < MIN_CHUNK_LEN THEN <<>> ELSE <<i>>)
         \o ExtractedFromEvery(chunks, i + 1)

RECURSIVE ExtractedFrom(_, _)
ExtractedFrom(chunks, i) ==
    IF i >= Len(chunks) THEN <<>>
    ELSE (IF chunks[i + 1].len < MIN_CHUNK_LEN THEN <<>> ELSE <<i>>)
         \o ExtractedFrom(chunks, i + 2)

RECURSIVE CollectTriples(_, _)
CollectTriples(chunks, idx) ==
    IF idx = <<>> THEN <<>>
    ELSE chunks[Head(idx) + 1].triples \o CollectTriples(chunks, Tail(idx))

KG_BATCH_SIZE == 500

\* kg.py:151-152: all_triples[i:i + BATCH_SIZE] for i in range(0, len, BATCH_SIZE)
RECURSIVE Batches(_, _)
Batches(seq, size) ==
    IF seq = <<>> THEN <<>>
    ELSE IF Len(seq) <= size THEN <<seq>>
    ELSE <<SubSeq(seq, 1, size)>> \o Batches(SubSeq(seq, size + 1, Len(seq)), size)

\* A graph: Entity nodes [id, name] and RELATES_TO edges [id, s, o, p, doc_id]
\* whose s and o are node ids.  Nothing in kg.py deletes, so the next fresh
\* id is the count plus one.
NameOf(nodes, id) == (CHOOSE n \in nodes : n.id = id).name

NodeIdFresh(nodes, name) == Cardinality(nodes) + 1

\* kg.py:145-146: MERGE (x:Entity {name: ...}) binds the node of that name,
\* creating it when there is none.
NodeId(nodes, name) ==
    IF \E n \in nodes : n.name = name
    THEN (CHOOSE n \in nodes : n.name = name).id
    ELSE Cardinality(nodes) + 1

NewEdge(edges, sid, oid, p, doc_id) ==
    [id |-> Cardinality(edges) + 1, s |-> sid, o |-> oid, p |-> p, doc_id |-> doc_id]

MergeEdgeAnyDoc(edges, sid, oid, p, doc_id) ==
    IF \E e \in edges : e.s = sid /\ e.o = oid /\ e.p = p
    THEN edges
    ELSE edges \cup {NewEdge(edges, sid, oid, p, doc_id)}

\* kg.py:147: MERGE (s)-[r:RELATES_TO {predicate: t.p, doc_id: $doc_id}]->(o)
\* binds the edge between the two nodes with that predicate and doc_id,
\* creating it when there is none.
MergeEdge(edges, sid, oid, p, doc_id) ==
    IF \E e \in edges : e.s = sid /\ e.o = oid /\ e.p = p /\ e.doc_id = doc_id
    THEN edges
    ELSE edges \cup {NewEdge(edges, sid, oid, p, doc_id)}

\* kg.py:144-147 for one row of UNWIND $triples.
MergeTriple(g, t, doc_id) ==
    LET sid == NodeId(g.nodes, t.s)
        n1  == g.nodes \cup {[id |-> sid, name |-> t.s]}
        oid == NodeId(n1, t.o)
        n2  == n1 \cup {[id |-> oid, name |-> t.o]}
    IN  [nodes |-> n2, edges |-> MergeEdge(g.edges, sid, oid, t.p, doc_id)]

\* kg.py:153: one session.run(cypher, triples=batch, doc_id=doc_id)
RECURSIVE MergeBatch(_, _, _)
MergeBatch(g, batch, doc_id) ==
    IF batch = <<>> THEN g
    ELSE IF Len(batch) = 1 THEN MergeTriple(g, batch[1], doc_id)
    ELSE LET h     == Len(batch) \div 2
             first == MergeBatch(g, SubSeq(batch, 1, h), doc_id)
         IN  \* the first half is merged in full before the rest begins
             IF first.nodes = {} THEN first
             ELSE MergeBatch(first, SubSeq(batch, h + 1, Len(batch)), doc_id)

\* kg.py:150-153: the batches, one transaction after the other.
RECURSIVE Merged(_, _, _)
Merged(g, batches, doc_id) ==
    IF batches = <<>> THEN g
    ELSE Merged(MergeBatch(g, Head(batches), doc_id), Tail(batches), doc_id)

EmptyGraph == [nodes |-> {}, edges |-> {}]

KgCall(op) ==
    /\ kOps < MaxOps
    /\ kOps' = kOps + 1
    /\ UNCHANGED <<kStoreUp>>
    /\ UNCHANGED <<retryVars, pageVars, ingestVars, ragVars>>

\* kg.py:106-154
upsert_kg_from_chunks(chunks, doc_id) ==
    LET d   == GetDriver(_driver, kStoreUp)
        idx == ExtractedFrom(chunks, 0)
        all_triples == CollectTriples(chunks, idx)
        lens == [i \in DOMAIN chunks |-> chunks[i].len]
        batches == Batches(all_triples, KG_BATCH_SIZE)
        base == [NoOp EXCEPT !.op = "upsert", !.down = ~kStoreUp,
                             !.doc_id = doc_id, !.before = kEdges,
                             !.memoized = (_driver # NoDriver),
                             !.probes = d.connects]
        \* kg.py:121-135: the chunks are read and the triples collected
        read == [base EXCEPT !.lens = lens, !.extracted = idx,
                             !.collected = all_triples]
    IN  /\ KgCall("upsert")
        /\ _driver' = d.driver
        /\ kConnects' = kConnects + d.connects
        /\ IF d.driver = NoDriver
           THEN \* kg.py:113-115
                /\ kLast' = base
                /\ UNCHANGED <<kNodes, kEdges>>
           ELSE IF all_triples = <<>>
           THEN \* kg.py:137-139
                /\ kLast' = read
                /\ UNCHANGED <<kNodes, kEdges>>
           ELSE IF ~kStoreUp
           THEN \* session.run raises (kg.py:150-153), nothing catches it
                /\ kLast' = [read EXCEPT !.raised = TRUE]
                /\ UNCHANGED <<kNodes, kEdges>>
           ELSE LET g == Merged([nodes |-> kNodes, edges |-> kEdges], batches, doc_id)
                IN  /\ kNodes' = g.nodes
                    /\ kEdges' = g.edges
                    /\ kLast' = [read EXCEPT !.writes = batches,
                                   !.unchanged = (g.nodes = kNodes /\ g.edges = kEdges)]

UpsertKg == \E chunks \in ChunkLists, doc_id \in DocIds :
                upsert_kg_from_chunks(chunks, doc_id)

\* ---- reads

UpperCase == <<"A", "B", "C", "D", "E", "F", "G", "H", "I", "J", "K", "L", "M",
               "N", "O", "P", "Q", "R", "S", "T", "U", "V", "W", "X", "Y", "Z">>
LowerCase == <<"a", "b", "c", "d", "e", "f", "g", "h", "i", "j", "k", "l", "m",
               "n", "o", "p", "q", "r", "s", "t", "u", "v", "w", "x", "y", "z">>

ToLowerChar(c) ==
    IF \E k \in DOMAIN UpperCase : UpperCase[k] = c
    THEN LowerCase[CHOOSE k \in DOMAIN UpperCase : UpperCase[k] = c]
    ELSE c

ToLower(s) == Map(ToLowerChar, s)

\* Python's `x in y` on texts, Cypher's `y CONTAINS x`.
IsSubstring(x, y) ==
    \E i \in 0..(Len(y) - Len(x)) : SubSeq(y, i + 1, i + Len(x)) = x

\* kg.py:281: RETURN s.name AS s, r.predicate AS p, o.name AS o
Row(e) == [s |-> NameOf(kNodes, e.s), p |-> e.p, o |-> NameOf(kNodes, e.o)]

RECURSIVE SetToSeq(_)
SetToSeq(S) ==
    IF S = {} THEN <<>>
    ELSE LET x == CHOOSE y \in S : TRUE IN <<x>> \o SetToSeq(S \ {x})

Reverse(seq) == [i \in 1..Len(seq) |-> seq[Len(seq) + 1 - i]]

\* The orders in which the server can return at most `limit` of the edges:
\* the statements have no ORDER BY.  Up to MaxPermuted matching edges every
\* order is considered, beyond that one order and its reverse.
Results(edges, limit) ==
    LET n == IF Cardinality(edges) < limit THEN Cardinality(edges) ELSE limit
    IN  IF Cardinality(edges) <= MaxPermuted
        THEN {Map(Row, f) : f \in {g \in [1..n -> edges] :
                                     \A i, j \in 1..n : i # j => g[i] # g[j]}}
        ELSE {Map(Row, SubSeq(f, 1, n)) :
                 f \in {SetToSeq(edges), Reverse(SetToSeq(edges))}}

\* kg.py:273-295: the edges the query's MATCH ... WHERE selects.
QueryMatches(edges, entities, doc_id) ==
    {e \in edges :
        /\ doc_id # NoDoc => e.doc_id = doc_id
        /\ \E k \in DOMAIN entities :
              \/ IsSubstring(ToLower(entities[k]), ToLower(NameOf(kNodes, e.s)))
              \/ IsSubstring(ToLower(entities[k]), ToLower(NameOf(kNodes, e.o)))}

\* kg.py:325-339
SampleMatches(edges, doc_id) ==
    {e \in edges : doc_id # NoDoc => e.doc_id = doc_id}

QUERY_LIMIT  == 50
SAMPLE_LIMIT == 10
FALLBACK_TOP == 10

NonEmpty(parts) == SelectSeq(parts, LAMBDA x : x # <<>>)

\* An answer of llm_deterministic.invoke: a content, or an exception.
LlmError == [ok |-> FALSE, content |-> <<>>]
LlmSays(content) == [ok |-> TRUE, content |-> content]

\* kg.py:173-200
extract_entities_from_query(query, ans) ==
    IF Strip(query) = <<>> THEN <<>>
    ELSE IF ~ans.ok THEN <<>>
    ELSE IF Strip(ans.content) = <<>> THEN <<>>
    ELSE NonEmpty(Map(Strip, SplitOn(Strip(ans.content), "|")))

Digits == <<"0", "1", "2", "3", "4", "5", "6", "7", "8", "9">>

IsDigitChar(c) == \E d \in 1..10 : Digits[d] = c

DigitVal(c) == (CHOOSE d \in 1..10 : Digits[d] = c) - 1

\* str.isdigit(): non-empty and all digits
IsDigit(s) == s # <<>> /\ \A i \in 1..Len(s) : IsDigitChar(s[i])

RECURSIVE ToInt(_)
ToInt(s) == IF s = <<>> THEN 0 ELSE 10 * ToInt(SubSeq(s, 1, Len(s) - 1)) + DigitVal(s[Len(s)])

RECURSIVE PickRows(_, _)
PickRows(triples, indices) ==
    IF indices = <<>> THEN <<>>
    ELSE (IF Head(indices) < Len(triples) THEN <<triples[Head(indices) + 1]>> ELSE <<>>)
         \o PickRows(triples, Tail(indices))

\* kg.py:203-249
filter_relevant_triples(triples, ans) ==
    IF triples = <<>> THEN <<>>
    ELSE IF ~ans.ok THEN triples
    ELSE LET content == Strip(ans.content)
             parts   == Map(Strip, SplitOn(content, ","))
             indices == Map(ToInt, SelectSeq(parts, IsDigit))
         IN  IF IsSubstring(<<"N", "O", "N", "E">>, content) THEN <<>>
             ELSE PickRows(triples, indices)

Queries == { <<" ">>, <<"a", "?">> }

EntityAnswers ==
    { LlmError, LlmSays(<<>>), LlmSays(<<"a", " ", "|", " ", "B">>),
      LlmSays(<<"z">>), LlmSays(<<" ", "|", " ", "|">>) }

FilterAnswers ==
    { LlmError, LlmSays(<<"N", "O", "N", "E">>), LlmSays(<<"0">>),
      LlmSays(<<"1", ",", " ", "0", ",", "x">>), LlmSays(<<"7">>) }

PrefixAll(seq, n) == seq

\* kg.py:312: rows[:10]
Prefix(seq, n) == SubSeq(seq, 1, IF Len(seq) < n THEN Len(seq) ELSE n)

NoEntitiesNever(entities) == FALSE

\* kg.py:267: `if not entities`
NoEntities(entities) == entities = <<>>

\* kg.py:252-315
query_kg_for_query(query, doc_id, entAns) ==
    LET d    == GetDriver(_driver, kStoreUp)
        base == [NoOp EXCEPT !.op = "query", !.down = ~kStoreUp,
                             !.query = query, !.entAns = entAns,
                             !.memoized = (_driver # NoDriver),
                             !.probes = d.connects]
        entities == extract_entities_from_query(query, entAns)
    IN  /\ KgCall("query")
        /\ _driver' = d.driver
        /\ kConnects' = kConnects + d.connects
        /\ UNCHANGED <<kNodes, kEdges>>
        /\ IF d.driver = NoDriver THEN kLast' = base
           ELSE LET asked == [base EXCEPT !.asked = TRUE, !.entities = entities]
                IN
                IF NoEntities(entities) THEN kLast' = asked
                ELSE IF ~kStoreUp
                THEN kLast' = [asked EXCEPT !.raised = TRUE, !.reads = 1]
                ELSE \E rows \in Results(QueryMatches(kEdges, entities, doc_id),
                                         QUERY_LIMIT),
                        filterAns \in FilterAnswers :
                       LET relevant_rows == filter_relevant_triples(rows, filterAns)
                       IN  kLast' = [asked EXCEPT
                                        !.reads = 1, !.rows = rows,
                                        !.relevant_rows = relevant_rows,
                                        !.result =
                                            IF rows = <<>> THEN <<>>
                                            ELSE IF relevant_rows = <<>>
                                                 THEN Prefix(rows, FALLBACK_TOP)
                                                 ELSE relevant_rows]

QueryKg == \E query \in Queries, doc_id \in DocIds \cup {NoDoc},
              entAns \in EntityAnswers :
                query_kg_for_query(query, doc_id, entAns)

\* kg.py:317-343
get_random_triples(doc_id) ==
    LET d    == GetDriver(_driver, kStoreUp)
        base == [NoOp EXCEPT !.op = "sample", !.down = ~kStoreUp,
                             !.memoized = (_driver # NoDriver),
                             !.probes = d.connects]
    IN  /\ KgCall("sample")
        /\ _driver' = d.driver
        /\ kConnects' = kConnects + d.connects
        /\ UNCHANGED <<kNodes, kEdges>>
        /\ IF d.driver = NoDriver THEN kLast' = base
           ELSE IF ~kStoreUp
           THEN kLast' = [base EXCEPT !.raised = TRUE, !.reads = 1]
           ELSE \E rows \in Results(SampleMatches(kEdges, doc_id), SAMPLE_LIMIT) :
                  kLast' = [base EXCEPT !.reads = 1, !.result = rows]

RandomTriples == \E doc_id \in DocIds \cup {NoDoc} : get_random_triples(doc_id)

\* The Neo4j server stops or starts answering between two operations.
StoreGoesDown ==
    /\ kStoreUp /\ kStoreUp' = FALSE
    /\ UNCHANGED <<_driver, kNodes, kEdges, kConnects, kOps, kLast>>
    /\ UNCHANGED <<retryVars, pageVars, ingestVars, ragVars>>

StoreComesUp ==
    /\ ~kStoreUp /\ kStoreUp' = TRUE
    /\ UNCHANGED <<_driver, kNodes, kEdges, kConnects, kOps, kLast>>
    /\ UNCHANGED <<retryVars, pageVars, ingestVars, ragVars>>

RetryIdle ==
    /\ rFn = "vision" /\ rText = <<>> /\ rScript = <<>> /\ rPc = "done"
    /\ rAttempt = 0 /\ rInvocations = 0 /\ rWaits = <<>> /\ rResult = None
    /\ rRaised = FALSE

\* A process starts without a connection (kg.py:10); the store is empty or
\* holds the graph of an earlier process.
InitKG ==
    /\ RetryIdle /\ PageIdle /\ IngestIdle /\ RagIdle
    /\ _driver = NoDriver
    /\ kStoreUp \in BOOLEAN
    /\ \E prior \in {<<>>, PriorTriples} :
          /\ kNodes = MergeBatch(EmptyGraph, prior, "d1").nodes
          /\ kEdges = MergeBatch(EmptyGraph, prior, "d1").edges
    /\ kConnects = 0 /\ kOps = 0 /\ kLast = NoOp

NextKG == UpsertKg \/ QueryKg \/ RandomTriples \/ StoreGoesDown \/ StoreComesUp

SpecKG == InitKG /\ [][NextKG]_vars

\* ---- one upsert of a large batch of chunks

MaxLargeChunks  == 3     \* longest chunk list of a large upsert
BigChunkTriples == 300   \* triples the Triple Extractor returns for a big chunk

\* Chunks for which the Triple Extractor returns many triples, next to a
\* short chunk and a chunk without triples.
LargeChunkKinds ==
    { [len |-> 99,   triples |-> <<T1>>],
      [len |-> 100,  triples |-> <<>>],
      [len |-> 100,  triples |-> [k \in 1..BigChunkTriples |-> T1]],
      [len |-> 1500, triples |-> [k \in 1..BigChunkTriples |-> T2]] }

LargeChunkLists == UNION {[1..n -> LargeChunkKinds] : n \in 0..MaxLargeChunks}

\* The process's first graph operation is the upsert of a large chunk list,
\* as ingest_pdf issues it for a batch of pages (ingest.py:204).
UpsertKgLarge ==
    /\ kOps = 0
    /\ \E chunks \in LargeChunkLists, doc_id \in DocIds :
          upsert_kg_from_chunks(chunks, doc_id)

NextUpsert == UpsertKgLarge \/ RandomTriples \/ StoreGoesDown \/ StoreComesUp

SpecUpsert == InitKG /\ [][NextUpsert]_vars

\* The last operation was an upsert that found the graph reachable.
UpsertReached == kLast.op = "upsert" /\ ~kLast.down /\ ~kLast.raised

\* The 0-based indices of the chunks that sit at an even index and whose
\* text has at least 100 characters, in increasing order.
EvenLongIndices(lens) ==
    LET S == {i \in 0..(Len(lens) - 1) : i % 2 = 0 /\ lens[i + 1] >= 100}
    IN  IF S = {} THEN <<>>
        ELSE CHOOSE f \in [1..Cardinality(S) -> S] :
                \A a, b \in 1..Cardinality(S) : a < b => f[a] < f[b]

RECURSIVE Flatten(_)
Flatten(seqs) == IF seqs = <<>> THEN <<>> ELSE seqs[1] \o Flatten(Tail(seqs))

\* C21: with a reachable graph upsert_kg_from_chunks invokes the Triple
\* Extractor exactly once, in index order, for each chunk at an even index
\* whose text has at least 100 characters, and for no other chunk; the
\* collected triples are written in consecutive transactions of at most 500
\* triples (none of them empty, all but the last full) whose concatenation
\* is the full collected list.
C21_EvenChunksInBatches ==
    UpsertReached =>
        /\ kLast.extracted = EvenLongIndices(kLast.lens)
        /\ \A b \in DOMAIN kLast.writes :
              /\ Len(kLast.writes[b]) >= 1 /\ Len(kLast.writes[b]) <= 500
              /\ b < Len(kLast.writes) => Len(kLast.writes[b]) = 500
        /\ Flatten(kLast.writes) = kLast.collected

\* Three long chunks: the one at index 1 is passed over, the other two give
\* more than 500 triples, written as a full transaction and a second one.
C21_Witness ==
    /\ UpsertReached /\ Len(kLast.lens) = 3
    /\ kLast.lens[2] >= 100
    /\ kLast.extracted = <<0, 2>>
    /\ Len(kLast.collected) > 500
    /\ Len(kLast.writes) = 2
    /\ Len(kLast.writes[1]) = 500 /\ Len(kLast.writes[2]) >= 1
    /\ kLast.writes[1][1] # kLast.writes[2][1]

\* C4: upsert_kg_from_chunks, query_kg_for_query and get_random_triples never
\* raise when the graph store is unavailable, be it unreachable at the first
\* connection attempt or only after a connection was created and memoized:
\* upsert is a no-op and the reads return the empty list.
C4_GraphOpsNeverRaise ==
    (kLast.op \in {"upsert", "query", "sample"} /\ kLast.down) =>
        /\ ~kLast.raised
        /\ kLast.unchanged
        /\ kLast.result = <<>>

\* The last operation was a query from which no entity can be extracted: the
\* query is blank, the extraction model raised, or its output holds nothing
\* but separators and white space.
ZeroEntities ==
    /\ kLast.op = "query"
    /\ \/ \A i \in DOMAIN kLast.query : IsSpace(kLast.query[i])
       \/ ~kLast.entAns.ok
       \/ \A i \in DOMAIN kLast.entAns.content :
             IsSpace(kLast.entAns.content[i]) \/ kLast.entAns.content[i] = "|"

\* C12: when entity extraction yields zero entities (blank query, empty
\* model output or extraction error), query_kg_for_query returns the empty
\* list without running any graph read (MATCH) in that call.
C12_NoEntitiesNoRead ==
    ZeroEntities => (~kLast.raised /\ kLast.result = <<>> /\ kLast.reads = 0)

\* Zero entities from an output of separators only, on a live memoized
\* connection to a graph that holds edges.
C12_Witness ==
    /\ ZeroEntities /\ kLast.asked /\ kLast.memoized /\ ~kLast.down
    /\ kLast.entAns.ok /\ kLast.entAns.content # <<>>
    /\ (\E i \in DOMAIN kLast.query : ~IsSpace(kLast.query[i]))
    /\ kEdges # {} /\ kLast.reads = 0 /\ kLast.result = <<>>

\* C17: node identity is the exact name and is global across documents: the
\* graph never holds two Entity nodes with the same name, every edge joins
\* nodes of the graph, and edges of different documents that name the same
\* entity end in one and the same node.
C17_NodeIdentityIsName ==
    /\ \A n1, n2 \in kNodes : n1.name = n2.name => n1 = n2
    /\ \A e \in kEdges : \E n1, n2 \in kNodes : n1.id = e.s /\ n2.id = e.o
    /\ \A e1, e2 \in kEdges :
          /\ NameOf(kNodes, e1.s) = NameOf(kNodes, e2.s) => e1.s = e2.s
          /\ NameOf(kNodes, e1.s) = NameOf(kNodes, e2.o) => e1.s = e2.o
          /\ NameOf(kNodes, e1.o) = NameOf(kNodes, e2.o) => e1.o = e2.o

\* Two upserts with different document ids wrote triples that share a name.
C17_Witness ==
    /\ kLast.op = "upsert" /\ kLast.writes # <<>> /\ kLast.before # {}
    /\ \E e1, e2 \in kEdges :
          e1.doc_id = "d1" /\ e2.doc_id = "d2" /\ e1.p # e2.p /\ e1.o = e2.s
    /\ \E n \in kNodes : n.name = <<"A">>
    /\ \E n \in kNodes : n.name = <<"a", "b">>

\* The edges of a graph that stand for the triple t.
EdgesFor(edges, t) ==
    {e \in edges : /\ NameOf(kNodes, e.s) = t.s /\ e.p = t.p
                   /\ NameOf(kNodes, e.o) = t.o}

\* The last operation was an upsert run whose transactions contained t.
Written(t) ==
    /\ kLast.op = "upsert"
    /\ \E b \in DOMAIN kLast.writes :
          \E i \in DOMAIN kLast.writes[b] : kLast.writes[b][i] = t

\* C18 as stated: edges are not deduplicated across extraction runs: a run
\* that contains a triple an earlier run already wrote adds one more edge
\* for it, so the graph holds one edge per run.
C18_OneEdgePerRun ==
    \A t \in {T1, T2} :
        (Written(t) /\ EdgesFor(kLast.before, t) # {}) =>
            Cardinality(EdgesFor(kEdges, t))
                = Cardinality(EdgesFor(kLast.before, t)) + 1

\* C18 amended: edges are deduplicated per document id and not otherwise: a
\* run that contains a triple adds an edge for it unless the graph already
\* holds that triple's edge with the run's document id, so the graph holds
\* one edge per distinct document id of the runs that contained it.
C18_OneEdgePerDocument ==
    /\ \A e1, e2 \in kEdges :
          (e1.s = e2.s /\ e1.o = e2.o /\ e1.p = e2.p /\ e1.doc_id = e2.doc_id)
              => e1 = e2
    /\ \A t \in {T1, T2} :
          Written(t) =>
              Cardinality(EdgesFor(kEdges, t))
                  = Cardinality(EdgesFor(kLast.before, t))
                    + (IF \E e \in EdgesFor(kLast.before, t) : e.doc_id = kLast.doc_id
                       THEN 0 ELSE 1)

\* A second run with another document id: two edges with the same predicate
\* between the same pair of nodes.
C18_Witness ==
    /\ Written(T1) /\ Cardinality(EdgesFor(kLast.before, T1)) = 1
    /\ \E e1, e2 \in EdgesFor(kEdges, T1) :
          e1 # e2 /\ e1.s = e2.s /\ e1.o = e2.o /\ e1.p = e2.p
          /\ e1.doc_id # e2.doc_id

\* C20 as stated: across any sequence of graph operations in one process the
\* connection is created and probed at most once, also when the first
\* creation attempt failed.
C20_CreatedAtMostOnce == kConnects <= 1

\* C20 amended: an operation creates and probes a connection exactly when
\* none is memoized; once a creation has succeeded every later operation
\* reuses that connection and creates none, whatever the store does; until
\* then every operation has made its own creation attempt.
C20_CreatedUntilItSucceeds ==
    /\ kLast.op # "none" =>
          /\ kLast.probes = (IF kLast.memoized THEN 0 ELSE 1)
          /\ kLast.memoized => _driver = TheDriver
          /\ (~kLast.memoized /\ ~kLast.down) => _driver = TheDriver
          /\ (~kLast.memoized /\ kLast.down) => _driver = NoDriver
    /\ kConnects <= kOps
    /\ _driver = NoDriver => kConnects = kOps
    /\ _driver = TheDriver => kConnects >= 1

\* The first attempt failed, the second operation created the connection.
C20_Witness ==
    /\ kOps = 2 /\ kConnects = 2 /\ _driver = TheDriver
    /\ kLast.op # "none" /\ kLast.probes = 1 /\ ~kLast.memoized /\ ~kLast.down

\* The last operation was a query whose graph read returned candidates.
HasCandidates == kLast.op = "query" /\ ~kLast.raised /\ kLast.rows # <<>>

\* C15: query_kg_for_query never returns nothing when the graph read produced
\* candidates: if the relevance filter rejects every one of the n candidates,
\* the result is the first min(10, n) candidates in their original order.
C15_FallbackToFirstTen ==
    HasCandidates =>
        /\ kLast.result # <<>>
        /\ kLast.relevant_rows = <<>> =>
              LET n == Len(kLast.rows)
              IN  kLast.result = [k \in 1..(IF n < 10 THEN n ELSE 10) |-> kLast.rows[k]]

\* More than 10 candidates, all rejected by the filter.
C15_Witness ==
    /\ HasCandidates /\ Len(kLast.rows) > 10 /\ kLast.relevant_rows = <<>>
    /\ Len(kLast.result) = 10 /\ kLast.result[10] = kLast.rows[10]

---------------------------------------------------------------------------
(* The Page Extractor: _process_pdf_page (ingest.py:61-140).               *)

MaxImages == 2      \* embedded images per page

MIN_TEXT_LEN    == 50       \* ingest.py:80
MIN_IMAGE_BYTES == 10000    \* ingest.py:112
PREFIX_LEN      == 19       \* len("Image Description: "), ingest.py:130

\* An embedded image: its byte size, whether doc_pdf.extract_image and the
\* file write succeed, and the length of the description the Vision
\* Describer returns for it (0: the empty string).
ImageKinds ==
    { [size |-> 9999,  extractOk |-> TRUE,  writeOk |-> TRUE,  descLen |-> 5],
      [size |-> 10000, extractOk |-> TRUE,  writeOk |-> TRUE,  descLen |-> 5],
      [size |-> 10000, extractOk |-> TRUE,  writeOk |-> TRUE,  descLen |-> 0],
      [size |-> 10000, extractOk |-> FALSE, writeOk |-> TRUE,  descLen |-> 5],
      [size |-> 10000, extractOk |-> TRUE,  writeOk |-> FALSE, descLen |-> 5] }

ImageLists == UNION {[1..n -> ImageKinds] : n \in 0..MaxImages}

\* A page as the extractor sees it: whether load_page/get_text succeed, the
\* length of the trimmed native text, whether the page rasterises, the length
\* of the transcription the Vision Describer returns for the raster, and the
\* embedded images.
Pages ==
    [loadOk : BOOLEAN, textLen : {0, 49, 50}, rasterOk : BOOLEAN,
     ocrLen : {0, 7}, images : ImageLists]

PageRaised(vision, files) ==
    [raised |-> TRUE, docs |-> <<>>, vision |-> vision, files |-> files,
     called |-> TRUE]

NeedsOcrWhenEmpty(textLen, deep_ocr) == textLen = 0 /\ deep_ocr

NeedsOcrAnyMode(textLen, deep_ocr) == textLen < MIN_TEXT_LEN

\* ingest.py:80
NeedsOcr(textLen, deep_ocr) == textLen < MIN_TEXT_LEN /\ deep_ocr

\* ingest.py:105-138: the loop over the embedded images from index k on.
RECURSIVE ImageLoop(_, _, _)
ImageLoop(images, k, page_num) ==
    IF k >= Len(images)
    THEN [raised |-> FALSE, docs |-> <<>>, vision |-> <<>>, files |-> <<>>,
          called |-> TRUE]
    ELSE LET img == images[k + 1]
         IN  IF ~img.extractOk THEN PageRaised(<<>>, <<>>)
             ELSE IF img.size < MIN_IMAGE_BYTES THEN ImageLoop(images, k + 1, page_num)
             ELSE IF ~img.writeOk THEN PageRaised(<<>>, <<>>)
             ELSE LET rest == ImageLoop(images, k + 1, page_num)
                      path == <<page_num + 1, k>>
                      unit == IF img.descLen > 0
                              THEN << [page |-> page_num + 1, type |-> "image",
                                       image_path |-> path,
                                       len |-> PREFIX_LEN + img.descLen] >>
                              ELSE <<>>
                  IN  [raised |-> rest.raised,
                       docs   |-> IF rest.raised THEN <<>> ELSE unit \o rest.docs,
                       vision |-> <<"describe">> \o rest.vision,
                       files  |-> <<path>> \o rest.files,
                       called |-> TRUE]

\* ingest.py:61-140.  Returns the content units, or raised; `vision` lists the
\* Vision Describer calls made and `files` the image files written, both of
\* which remain when the call raises.
_process_pdf_page(page, page_num, deep_ocr) ==
    IF ~page.loadOk THEN PageRaised(<<>>, <<>>)
    ELSE IF NeedsOcr(page.textLen, deep_ocr) /\ ~page.rasterOk THEN PageRaised(<<>>, <<>>)
    ELSE LET ocr  == NeedsOcr(page.textLen, deep_ocr)
             len  == IF ocr /\ page.ocrLen > 0 THEN page.ocrLen ELSE page.textLen
             text == IF len > 0
                     THEN << [page |-> page_num + 1, type |-> "text",
                              image_path |-> <<>>, len |-> len] >>
                     ELSE <<>>
             imgs == IF deep_ocr THEN ImageLoop(page.images, 0, page_num)
                     ELSE [raised |-> FALSE, docs |-> <<>>, vision |-> <<>>,
                           files |-> <<>>, called |-> TRUE]
             seen == IF ocr THEN <<"ocr">> ELSE <<>>
         IN  [raised |-> imgs.raised,
              docs   |-> IF imgs.raised THEN <<>> ELSE text \o imgs.docs,
              vision |-> seen \o imgs.vision,
              files  |-> imgs.files,
              called |-> TRUE]

InitPage ==
    /\ RetryIdle /\ KgIdle /\ IngestIdle /\ RagIdle
    /\ pPage \in Pages
    /\ pDeep \in BOOLEAN
    /\ pOut = NotCalled

ProcessPage ==
    /\ ~pOut.called
    /\ pOut' = _process_pdf_page(pPage, 0, pDeep)
    /\ UNCHANGED <<pPage, pDeep>>
    /\ UNCHANGED <<retryVars, kgVars, ingestVars, ragVars>>

NextPage == ProcessPage

SpecPage == InitPage /\ [][NextPage]_vars

Count(seq, x) == Cardinality({i \in DOMAIN seq : seq[i] = x})

LargeImages(images) == Cardinality({i \in DOMAIN images : images[i].size >= 10000})

\* A page whose trimmed native text was read and is shorter than 50
\* characters, processed with deep extraction enabled.
ShortTextDeep == pOut.called /\ pPage.loadOk /\ pPage.textLen < 50 /\ pDeep

\* C9 as stated: for every page whose trimmed native text is shorter than 50
\* characters, with deep extraction enabled, _process_pdf_page invokes the
\* Vision Describer exactly once, whatever embedded images the page carries.
C9_ExactlyOneVisionCall ==
    (ShortTextDeep /\ ~pOut.raised) => Len(pOut.vision) = 1

\* C9 amended: for such a page the Vision Describer is invoked for the
\* full-page transcription exactly once, first, unless rasterising the page
\* raises (then not at all); a call that returns has invoked it once more for
\* each embedded image of at least 10000 bytes.
C9_OneTranscriptionPlusImages ==
    ShortTextDeep =>
        /\ Count(pOut.vision, "ocr") = (IF pPage.rasterOk THEN 1 ELSE 0)
        /\ pPage.rasterOk => pOut.vision[1] = "ocr"
        /\ ~pOut.raised => Len(pOut.vision) = 1 + LargeImages(pPage.images)

C9_Witness ==
    /\ ShortTextDeep /\ ~pOut.raised /\ pPage.textLen = 49
    /\ LargeImages(pPage.images) = 2
    /\ pOut.vision = <<"ocr", "describe", "describe">>

---------------------------------------------------------------------------
(* The Ingestion Pipeline: ingest_pdf (ingest.py:142-214).                 *)

MaxPages == 3       \* pages of a small document
MaxExtra == 1       \* pages beyond one full batch in a large document

BATCH_SIZE     == 50     \* ingest.py:160
PAGE_DELAY     == 3      \* ingest.py:181, seconds

DOC_ID == "d1"

PFail  == [loadOk |-> FALSE, textLen |-> 0,  rasterOk |-> TRUE, ocrLen |-> 0,
           images |-> <<>>]
PBlank == [loadOk |-> TRUE,  textLen |-> 0,  rasterOk |-> TRUE, ocrLen |-> 0,
           images |-> <<>>]
PText  == [loadOk |-> TRUE,  textLen |-> 50, rasterOk |-> TRUE, ocrLen |-> 0,
           images |-> <<>>]
PScan  == [loadOk |-> TRUE,  textLen |-> 0,  rasterOk |-> TRUE, ocrLen |-> 7,
           images |-> << [size |-> 10000, extractOk |-> TRUE, writeOk |-> TRUE,
                          descLen |-> 5] >>]

IngestPageKinds == {PFail, PBlank, PText, PScan}

\* Small documents: every page of any kind.  Large documents: one full batch
\* of pages of one kind, then up to MaxExtra pages of any kind.
SmallDocs == UNION {[1..n -> IngestPageKinds] : n \in 0..MaxPages}

LargeDocs ==
    UNION { { [i \in 1..(BATCH_SIZE + n) |->
                  IF i <= BATCH_SIZE THEN k ELSE tail[i - BATCH_SIZE]] :
              k \in {PText, PBlank}, tail \in [1..n -> IngestPageKinds] } :
            n \in 1..MaxExtra }

Documents == SmallDocs \cup LargeDocs

\* A logged call.  "extract": a = page index, b = 1 when it returned, data =
\* the units; "progress": a, b = the arguments; "sleep": a = seconds;
\* "split", "add_chunks", "upsert": a = 1 when it raised, b = batch_start,
\* data = the argument; "vision", "file": a = page index.
Ev(name, a, b, data) == [ev |-> name, a |-> a, b |-> b, data |-> data]

Min(a, b) == IF a < b THEN a ELSE b

\* ingest.py:192-198: the splitter applied to the batch's content units.  A
\* unit of at most chunk_size (1500) characters comes back as one chunk with
\* the unit's metadata; every content unit of the documents above is that
\* short.
SplitUnit(u) == <<u>>

split_documents(units) == Concat(Map(SplitUnit, units))

InitIngest ==
    /\ RetryIdle /\ KgIdle /\ PageIdle /\ RagIdle
    /\ iDoc \in Documents
    /\ iDeep \in BOOLEAN
    /\ iCallback \in BOOLEAN
    /\ iPc = "start"
    /\ iBatchStart = 0 /\ iPage = 0 /\ iBatchDocs = <<>>
    /\ iOpen = FALSE /\ iOpened = FALSE
    /\ iReturned = NotReturned /\ iRaised = "" /\ iLog = <<>>

total_pages == Len(iDoc)

batch_end_document == total_pages

\* ingest.py:165
batch_end == Min(iBatchStart + BATCH_SIZE, total_pages)

IngestFrame ==
    UNCHANGED <<iDoc, iDeep, iCallback>> /\ UNCHANGED <<retryVars, kgVars, pageVars, ragVars>>

\* ingest.py:154-164: fitz.open returns a handle or raises; then the first
\* batch starts, if there is a page.
IngestOpen ==
    /\ iPc = "start"
    /\ \E ok \in BOOLEAN :
         IF ok
         THEN /\ iOpen' = TRUE /\ iOpened' = TRUE
              /\ iLog' = Append(iLog, Ev("open", 0, 0, <<>>))
              /\ iPc' = IF total_pages > 0 THEN "page" ELSE "close"
              /\ UNCHANGED iRaised
         ELSE /\ iRaised' = "open" /\ iPc' = "done"
              /\ UNCHANGED <<iOpen, iOpened, iLog>>
    /\ UNCHANGED <<iBatchStart, iPage, iBatchDocs, iReturned>>
    /\ IngestFrame

PageEvents(r, i) ==
    [k \in 1..Len(r.vision) |-> Ev("vision", i, 0, <<>>)]
    \o [k \in 1..Len(r.files) |-> Ev("file", i, 0, r.files[k])]

\* What follows a page whose extraction returned (ingest.py:175-184).
AfterPage(i) ==
    (IF iCallback THEN <<Ev("progress", i + 1, total_pages, <<>>)>> ELSE <<>>)
    \o (IF iDeep THEN <<Ev("sleep", PAGE_DELAY, 0, <<>>)>> ELSE <<>>)

IngestPageNoCatch ==
    /\ iPc = "page"
    /\ iPage < batch_end
    /\ LET r == _process_pdf_page(iDoc[iPage + 1], iPage, iDeep)
       IN  IF r.raised
           THEN /\ iLog' = Append(iLog, Ev("extract", iPage, 0, <<>>)) \o PageEvents(r, iPage)
                /\ iRaised' = "page" /\ iPc' = "done"
                /\ UNCHANGED <<iBatchDocs, iPage>>
           ELSE /\ iLog' = Append(iLog, Ev("extract", iPage, 1, r.docs))
                              \o PageEvents(r, iPage) \o AfterPage(iPage)
                /\ iBatchDocs' = iBatchDocs \o r.docs
                /\ iPage' = iPage + 1
                /\ iPc' = IF iPage + 1 < batch_end THEN "page" ELSE "flush"
                /\ UNCHANGED iRaised
    /\ UNCHANGED <<iBatchStart, iOpen, iOpened, iReturned>>
    /\ IngestFrame

\* ingest.py:170-187: one iteration of `for i in range(batch_start, batch_end)`.
\* The progress callback is taken to return.
IngestPage ==
    /\ iPc = "page"
    /\ iPage < batch_end
    /\ LET r == _process_pdf_page(iDoc[iPage + 1], iPage, iDeep)
       IN  IF r.raised
           THEN \* except Exception: print, continue (ingest.py:185-187)
                /\ iLog' = Append(iLog, Ev("extract", iPage, 0, <<>>)) \o PageEvents(r, iPage)
                /\ UNCHANGED iBatchDocs
           ELSE /\ iLog' = Append(iLog, Ev("extract", iPage, 1, r.docs))
                              \o PageEvents(r, iPage) \o AfterPage(iPage)
                /\ iBatchDocs' = iBatchDocs \o r.docs
    /\ iPage' = iPage + 1
    /\ iPc' = IF iPage + 1 < batch_end THEN "page" ELSE "flush"
    /\ UNCHANGED <<iBatchStart, iOpen, iOpened, iReturned, iRaised>>
    /\ IngestFrame

HasDocsAlways(batch_docs) == TRUE

\* ingest.py:190: `if batch_docs:`
HasDocs(batch_docs) == batch_docs # <<>>

\* ingest.py:189-210 and the step of the batch loop (ingest.py:164).  add_chunks
\* raises when the vector store fails, upsert_kg_from_chunks when the graph
\* store went down under a memoized connection; neither is caught here.
IngestFlush ==
    /\ iPc = "flush"
    /\ IF HasDocs(iBatchDocs)
       THEN LET chunks == split_documents(iBatchDocs)
                split  == Ev("split", 0, iBatchStart, iBatchDocs)
                add    == Ev("add_chunks", 0, iBatchStart, chunks)
                upsert == Ev("upsert", 0, iBatchStart, chunks)
            IN  \E outcome \in {"ok", "add_chunks", "upsert"} :
                   /\ iLog' = iLog \o
                        (CASE outcome = "add_chunks" ->
                                  <<split, [add EXCEPT !.a = 1]>>
                           [] outcome = "upsert" ->
                                  <<split, add, [upsert EXCEPT !.a = 1]>>
                           [] OTHER -> <<split, add, upsert>>)
                   /\ IF outcome = "ok"
                      THEN /\ iBatchStart' = iBatchStart + BATCH_SIZE
                           /\ iPage' = Min(iBatchStart + BATCH_SIZE, total_pages)
                           /\ iBatchDocs' = <<>>
                           /\ iPc' = IF iBatchStart + BATCH_SIZE < total_pages
                                     THEN "page" ELSE "close"
                           /\ UNCHANGED iRaised
                      ELSE /\ iRaised' = outcome /\ iPc' = "done"
                           /\ UNCHANGED <<iBatchStart, iPage, iBatchDocs>>
       ELSE /\ iBatchStart' = iBatchStart + BATCH_SIZE
            /\ iPage' = Min(iBatchStart + BATCH_SIZE, total_pages)
            /\ iBatchDocs' = <<>>
            /\ iPc' = IF iBatchStart + BATCH_SIZE < total_pages THEN "page" ELSE "close"
            /\ UNCHANGED <<iRaised, iLog>>
    /\ UNCHANGED <<iOpen, iOpened, iReturned>>
    /\ IngestFrame

\* ingest.py:212-214
IngestClose ==
    /\ iPc = "close"
    /\ iOpen' = FALSE
    /\ iReturned' = DOC_ID
    /\ iPc' = "done"
    /\ iLog' = Append(iLog, Ev("close", 0, 0, <<>>))
    /\ UNCHANGED <<iBatchStart, iPage, iBatchDocs, iOpened, iRaised>>
    /\ IngestFrame

NextIngest == IngestOpen \/ IngestPage \/ IngestFlush \/ IngestClose

SpecIngest == InitIngest /\ [][NextIngest]_vars

Events(name) == SelectSeq(iLog, LAMBDA e : e.ev = name)

\* ingest_pdf returned normally.
Finished == iPc = "done" /\ iRaised = ""

\* The content units of the pages lo..hi-1 whose extraction does not raise.
RECURSIVE UnitsOf(_, _)
UnitsOf(lo, hi) ==
    IF lo >= hi THEN <<>>
    ELSE LET r == _process_pdf_page(iDoc[lo + 1], lo, iDeep)
         IN  (IF r.raised THEN <<>> ELSE r.docs) \o UnitsOf(lo + 1, hi)

BatchUnits(start) == UnitsOf(start, Min(start + BATCH_SIZE, total_pages))

\* The batches that start before page `upto` and yield content units.
RECURSIVE FullBatches(_, _)
FullBatches(start, upto) ==
    IF start >= upto THEN <<>>
    ELSE (IF BatchUnits(start) # <<>> THEN <<start>> ELSE <<>>)
         \o FullBatches(start + BATCH_SIZE, upto)

\* C5: a failure of the Page Extractor on a page does not abort ingest_pdf:
\* the page contributes no content units, every page is still processed in
\* order, the units of the other pages of the batch are split and stored, and
\* the document id is returned.
C5_PageFailureSkipsPage ==
    LET extracts == Events("extract")
        stores   == Events("add_chunks")
    IN  /\ iRaised # "page"
        /\ \A k \in DOMAIN extracts : extracts[k].a = k - 1
        /\ iPc \in {"page", "flush"} =>
              /\ Len(extracts) = iPage
              /\ iBatchDocs = UnitsOf(iBatchStart, iPage)
        /\ \A k \in DOMAIN stores :
              stores[k].data = split_documents(BatchUnits(stores[k].b))
        /\ Finished =>
              /\ Len(extracts) = total_pages
              /\ [k \in DOMAIN stores |-> stores[k].b] = FullBatches(0, total_pages)
              /\ iReturned = DOC_ID

C5_Witness ==
    /\ Finished /\ iDoc = <<PText, PFail, PText>> /\ iReturned = DOC_ID
    /\ Len(Events("extract")) = 3
    /\ Len(Events("add_chunks")) = 1
    /\ Len(Events("add_chunks")[1].data) = 2

\* C6: when a progress callback is supplied, ingest_pdf invokes it exactly
\* once per page with (page index + 1, total pages), in increasing page order,
\* whether extraction of the page succeeded or failed.
C6_ProgressEveryPage ==
    (iCallback /\ iRaised = "" /\ iPc \in {"close", "done"}) =>
        LET calls == Events("progress")
        IN  /\ Len(calls) = total_pages
            /\ \A k \in DOMAIN calls : calls[k].a = k /\ calls[k].b = total_pages

\* C7: every execution of ingest_pdf that opened the document handle has
\* closed it when control leaves ingest_pdf, on the normal path and on every
\* error path.
C7_HandleClosedOnExit == (iPc = "done" /\ iOpened) => ~iOpen

\* C8: for a document of 0 pages ingest_pdf returns the document id without
\* calling the splitter, add_chunks or the knowledge-graph upsert; and a batch
\* whose pages yield no content units triggers none of the three calls.
C8_EmptyBatchStoresNothing ==
    LET calls == Events("split") \o Events("add_chunks") \o Events("upsert")
    IN  /\ (Finished /\ total_pages = 0) => (iReturned = DOC_ID /\ calls = <<>>)
        /\ \A k \in DOMAIN calls :
              calls[k].data # <<>> /\ BatchUnits(calls[k].b) # <<>>
        /\ (iRaised = "" /\ iOpened) =>
              \A name \in {"split", "add_chunks", "upsert"} :
                 [k \in DOMAIN Events(name) |-> Events(name)[k].b]
                     = FullBatches(0, iBatchStart)

C8_Witness ==
    /\ Finished /\ iReturned = DOC_ID
    /\ total_pages = BATCH_SIZE + 1
    /\ BatchUnits(0) = <<>> /\ BatchUnits(BATCH_SIZE) # <<>>
    /\ Len(Events("split")) = 1 /\ Events("split")[1].b = BATCH_SIZE
    /\ Len(Events("add_chunks")) = 1 /\ Len(Events("upsert")) = 1

\* The positions of the log that hold a call of the given name.
At(name) == {k \in DOMAIN iLog : iLog[k].ev = name}

\* The page index lies in the batch that starts at page b.
InBatch(page, b) == b <= page /\ page < b + 50

\* C19: ingest_pdf processes pages in batches of at most 50 consecutive
\* pages, strictly in order: pages are extracted in increasing order; a
\* batch's chunks are written to the vector index after the batch's pages and
\* before any later page; the same chunk list then goes to the
\* knowledge-graph upsert; and no page of a later batch is extracted before
\* both calls of every earlier batch that yielded content units returned.
C19_BatchesInOrder ==
    /\ \A i, j \in At("extract") : i < j => iLog[i].a < iLog[j].a
    /\ \A k \in At("add_chunks") :
          /\ iLog[k].b % 50 = 0
          /\ iLog[k].data # <<>>
          /\ \A j \in At("extract") :
                IF j < k THEN iLog[j].a < iLog[k].b + 50
                ELSE iLog[j].a >= iLog[k].b + 50 /\ iLog[k].a = 0
          /\ iLog[k].a = 0 =>
                /\ k + 1 \in At("upsert")
                /\ iLog[k + 1].b = iLog[k].b
                /\ iLog[k + 1].data = iLog[k].data
    /\ \A k \in At("upsert") :
          /\ k - 1 \in At("add_chunks") /\ iLog[k - 1].a = 0
          /\ \A j \in At("extract") : j > k => iLog[k].a = 0
    /\ \A j \in At("extract") :
          \A b \in {0, 50} :
              (b + 50 <= iLog[j].a /\ BatchUnits(b) # <<>>) =>
                  \E k \in At("upsert") : k < j /\ iLog[k].b = b /\ iLog[k].a = 0

\* A document of two batches that both yield content units.
C19_Witness ==
    /\ Finished /\ total_pages > 50
    /\ Len(Events("add_chunks")) = 2 /\ Len(Events("upsert")) = 2
    /\ Events("add_chunks")[1].b = 0 /\ Len(Events("add_chunks")[1].data) = 50
    /\ Events("upsert")[2].b = 50 /\ Events("upsert")[2].data # <<>>
    /\ \E k \in At("upsert"), j \in At("extract") : k < j /\ iLog[j].a = 50

\* The content units the ingestion handed on: what the Page Extractor
\* returned and what went to the splitter, the vector index and the graph.
UnitsSeen ==
    UNION { {iLog[k].data[n] : n \in DOMAIN iLog[k].data} :
            k \in At("extract") \cup At("split") \cup At("add_chunks") \cup At("upsert") }
        \cup {iBatchDocs[n] : n \in DOMAIN iBatchDocs}

\* C22: with deep extraction disabled, ingestion never invokes the Vision
\* Describer, writes no image file, emits no content unit of kind image and
\* performs no inter-page pacing delay.
C22_ShallowIngestionIsTextOnly ==
    ~iDeep =>
        /\ At("vision") = {}
        /\ At("file") = {}
        /\ At("sleep") = {}
        /\ \A u \in UnitsSeen : u.type # "image"

\* A finished shallow ingestion of a document that holds a scanned page with
\* a large image next to a page of text: every page was extracted and the
\* text was stored.
C22_Witness ==
    /\ ~iDeep /\ Finished
    /\ \E i, j \in DOMAIN iDoc : iDoc[i] = PScan /\ iDoc[j] = PText
    /\ \A i \in DOMAIN iDoc : \E k \in At("extract") : iLog[k].a = i - 1 /\ iLog[k].b = 1
    /\ At("add_chunks") # {}
    /\ \E u \in UnitsSeen : u.type = "text"

---------------------------------------------------------------------------
(* The Retrieval-Answer Synthesizer: generate_answer_with_validation       *)
(* (rag_chain.py:138-220).                                                 *)

MaxDocs == 2        \* retrieved chunks handed to the call

NoPage == -1        \* metadata without "page"

Repeat(c, n) == [i \in 1..n |-> c]

RECURSIVE DigitsOf(_)
DigitsOf(n) == IF n < 10 THEN <<Digits[n + 1]>>
               ELSE DigitsOf(n \div 10) \o <<Digits[(n % 10) + 1]>>

TypeText(type) == IF type = "image" THEN <<"i", "m", "a", "g", "e">>
                  ELSE <<"t", "e", "x", "t">>

\* rag_chain.py:100: f"[page {page} ({source_type})] ", or "" without a page
PagePrefix(d) ==
    IF d.page = NoPage THEN <<>>
    ELSE <<"[", "p", "a", "g", "e", " ">> \o DigitsOf(d.page) \o <<" ", "(">>
         \o TypeText(d.type) \o <<")", "]", " ">>

FormatDoc(d) == PagePrefix(d) \o Strip(d.content)

\* rag_chain.py:95-102
format_docs(docs) == Join(Map(FormatDoc, docs), <<NL, NL>>)

Truthy(x) == x # <<>>

KgLine(t) == t.s \o <<" ", "|", " ">> \o t.p \o <<" ", "|", " ">> \o t.o

\* rag_chain.py:152-165.  kg_context is a list of triples, a text, or another
\* value, of which `text` is str(kg_context).
format_kg(kg) ==
    IF kg.kind = "list"
    THEN Join(Map(KgLine, SelectSeq(kg.triples,
                     LAMBDA t : Truthy(t.s) /\ Truthy(t.p) /\ Truthy(t.o))),
              <<NL>>)
    ELSE kg.text

INSUFFICIENT_MSG ==
    << "I", " ", "d", "o", "n", "'", "t", " ", "h", "a", "v", "e", " ", "e",
       "n", "o", "u", "g", "h", " ", "i", "n", "f", "o", "r", "m", "a", "t",
       "i", "o", "n", " ", "f", "r", "o", "m", " ", "t", "h", "e", " ", "b",
       "o", "o", "k", " ", "t", "o", " ", "a", "n", "s", "w", "e", "r", " ",
       "t", "h", "i", "s", ".", " ", "P", "l", "e", "a", "s", "e", " ", "m",
       "a", "k", "e", " ", "s", "u", "r", "e", " ", "y", "o", "u", "'", "v",
       "e", " ", "u", "p", "l", "o", "a", "d", "e", "d", " ", "a", "n", "d",
       " ", "i", "n", "d", "e", "x", "e", "d", " ", "a", " ", "d", "o", "c",
       "u", "m", "e", "n", "t", " ", "f", "i", "r", "s", "t", "." >>

UNRELATED_MSG ==
    << "T", "h", "e", " ", "q", "u", "e", "s", "t", "i", "o", "n", " ", "d",
       "o", "e", "s", "n", "'", "t", " ", "s", "e", "e", "m", " ", "t", "o",
       " ", "m", "a", "t", "c", "h", " ", "t", "h", "e", " ", "c", "o", "n",
       "t", "e", "n", "t", " ", "i", "n", " ", "t", "h", "i", "s", " ", "d",
       "o", "c", "u", "m", "e", "n", "t", ".", " ", "I", " ", "c", "a", "n",
       " ", "o", "n", "l", "y", " ", "a", "n", "s", "w", "e", "r", " ", "q",
       "u", "e", "s", "t", "i", "o", "n", "s", " ", "a", "b", "o", "u", "t",
       " ", "t", "h", "e", " ", "u", "p", "l", "o", "a", "d", "e", "d", " ",
       "b", "o", "o", "k", "." >>

REFUSAL_PHRASES ==
    { << "n", "o", "t", " ", "r", "e", "l", "a", "t", "e", "d", " ", "t", "o" >>,
      << "d", "o", "n", "'", "t", " ", "k", "n", "o", "w", " ", "b", "a", "s",
         "e", "d", " ", "o", "n" >>,
      << "c", "a", "n", "n", "o", "t", " ", "a", "n", "s", "w", "e", "r" >>,
      << "n", "o", "t", " ", "i", "n", " ", "t", "h", "e", " ", "d", "o", "c",
         "u", "m", "e", "n", "t" >>,
      << "n", "o", " ", "i", "n", "f", "o", "r", "m", "a", "t", "i", "o", "n",
         " ", "a", "b", "o", "u", "t" >> }

\* Confidence is counted in units of 1/5000 (rag_chain.py:210), so that
\* 0.4 + 0.1 * len(docs) + len(context_str) / 5000 is 2000 + 500 n + len.
CONF_UNIT == 5000
Conf(tenths) == tenths * (CONF_UNIT \div 10)

NoContextUnstripped(context_str, kg_context_str) ==
    context_str = <<>> /\ kg_context_str = <<>>

\* rag_chain.py:168
NoContext(context_str, kg_context_str) ==
    Strip(context_str) = <<>> /\ Strip(kg_context_str) = <<>>

\* rag_chain.py:179
SparseContext(context_str, kg_context_str) ==
    Len(Strip(context_str)) < 50 /\ Strip(kg_context_str) = <<>>

ConfidenceCaseSensitive(answer, docs, context_str) ==
    IF \E ph \in REFUSAL_PHRASES : IsSubstring(ph, answer)
    THEN Conf(2)
    ELSE Min(CONF_UNIT, Conf(4) + Conf(1) * Len(docs) + Len(context_str))

\* rag_chain.py:199-210
Confidence(answer, docs, context_str) ==
    IF \E ph \in REFUSAL_PHRASES : IsSubstring(ph, ToLower(answer))
    THEN Conf(2)
    ELSE Min(CONF_UNIT, Conf(4) + Conf(1) * Len(docs) + Len(context_str))

\* rag_chain.py:213-218
ImagePaths(docs) ==
    {docs[i].image_path : i \in {k \in DOMAIN docs :
                                   docs[k].type = "image" /\ docs[k].image_path # ""}}

Orders(S) == {f \in [1..Cardinality(S) -> S] : \A i, j \in DOMAIN f : i # j => f[i] # f[j]}

\* A retrieved chunk long enough for the confidence sum to pass 1.0.
LONG_CHUNK == 2600

RagDocKinds ==
    { [page |-> NoPage, type |-> "text",  image_path |-> "", content |-> <<>>],
      [page |-> NoPage, type |-> "text",  image_path |-> "", content |-> <<" ", NL>>],
      [page |-> 1,      type |-> "text",  image_path |-> "", content |-> <<>>],
      [page |-> NoPage, type |-> "text",  image_path |-> "", content |-> <<"a", "b">>],
      [page |-> 12,     type |-> "text",  image_path |-> "", content |-> Repeat("a", 50)],
      [page |-> 3,      type |-> "image", image_path |-> "static/images/d1_p3_i0.png",
       content |-> Repeat("b", 40)],
      [page |-> NoPage, type |-> "text",  image_path |-> "", content |-> Repeat("c", LONG_CHUNK)] }

RagDocLists == UNION {[1..n -> RagDocKinds] : n \in 0..MaxDocs}

KgList(triples) == [kind |-> "list", triples |-> triples, text |-> <<>>]
KgText(kind, text) == [kind |-> kind, triples |-> <<>>, text |-> text]

KgContexts ==
    { KgList(<<>>),
      KgList(<< [s |-> <<"A">>, p |-> <<>>, o |-> <<"b">>] >>),
      KgList(<<T1, T2>>),
      KgText("str", <<>>),
      KgText("str", <<" ", NL>>),
      KgText("str", <<"A", " ", "|", " ", "p", " ", "|", " ", "b">>),
      KgText("other", <<"N", "o", "n", "e">>) }

RagAnswers ==
    { LlmError,
      LlmSays(<<>>),
      LlmSays(<<" ", "P", "a", "r", "i", "s", ".", NL>>),
      LlmSays(<< "I", " ", "C", "a", "n", "n", "o", "t", " ", "A", "n", "s", "w", "e",
              "r", " ", "t", "h", "a", "t", "." >>),
      LlmSays(<< "I", "t", " ", "i", "s", " ", "N", "o", "t", " ", "I", "n", " ", "T",
              "h", "e", " ", "D", "o", "c", "u", "m", "e", "n", "t" >>) }

InitRag ==
    /\ RetryIdle /\ KgIdle /\ PageIdle /\ IngestIdle
    /\ gQuestion \in {<<>>, <<"w", "h", "y", "?">>}
    /\ gHistory \in {<<>>, <<"U", "S", "E", "R", ":", " ", "h", "i">>}
    /\ gLang \in {"English", "Tamil"}
    /\ gDocs \in RagDocLists
    /\ gKg \in KgContexts
    /\ gOut = NoAnswer

Answered(answer, confidence, images, llmCalls) ==
    [called |-> TRUE, raised |-> FALSE, answer |-> answer,
     confidence |-> confidence, images |-> images, llmCalls |-> llmCalls]

\* rag_chain.py:138-220
generate_answer_with_validation(question, history, docs, kg_context, answer_lang) ==
    LET context_str    == format_docs(docs)
        kg_context_str == format_kg(kg_context)
    IN  IF NoContext(context_str, kg_context_str)
        THEN gOut' = Answered(INSUFFICIENT_MSG, 0, <<>>, 0)
        ELSE IF SparseContext(context_str, kg_context_str)
        THEN gOut' = Answered(UNRELATED_MSG, Conf(1), <<>>, 0)
        ELSE \E response \in RagAnswers :
               IF ~response.ok
               THEN \* llm.invoke raises (rag_chain.py:195), nothing catches it
                    gOut' = [NoAnswer EXCEPT !.called = TRUE, !.raised = TRUE,
                                             !.llmCalls = 1]
               ELSE LET answer == Strip(response.content)
                    IN  \E image_paths \in Orders(ImagePaths(docs)) :
                           gOut' = Answered(answer,
                                            Confidence(answer, docs, context_str),
                                            image_paths, 1)

GenerateAnswer ==
    /\ ~gOut.called
    /\ generate_answer_with_validation(gQuestion, gHistory, gDocs, gKg, gLang)
    /\ UNCHANGED <<gQuestion, gHistory, gLang, gDocs, gKg>>
    /\ UNCHANGED <<retryVars, kgVars, pageVars, ingestVars>>

NextRag == GenerateAnswer

SpecRag == InitRag /\ [][NextRag]_vars

AllSpace(text) == \A i \in DOMAIN text : IsSpace(text[i])

\* No chunk contributes a character to the context: none has a page, and
\* every content is blank.
EmptyContext == \A i \in DOMAIN gDocs : gDocs[i].page = NoPage /\ AllSpace(gDocs[i].content)

\* The graph facts format to nothing: no triple of the list has all three
\* fields, or the text is blank.
EmptyFacts ==
    IF gKg.kind = "list"
    THEN \A i \in DOMAIN gKg.triples :
            gKg.triples[i].s = <<>> \/ gKg.triples[i].p = <<>> \/ gKg.triples[i].o = <<>>
    ELSE AllSpace(gKg.text)

\* C10: given chunks whose formatted context is empty and graph facts whose
\* formatted block is empty, generate_answer_with_validation returns the fixed
\* insufficiency message with confidence 0.0 and an empty image list, for any
\* question, history and language, without invoking the answer-generation
\* capability.
C10_NoContextNoAnswer ==
    (gOut.called /\ EmptyContext /\ EmptyFacts) =>
        /\ ~gOut.raised
        /\ gOut.answer = INSUFFICIENT_MSG
        /\ gOut.confidence = 0
        /\ gOut.images = <<>>
        /\ gOut.llmCalls = 0

C10_Witness ==
    /\ gOut.called /\ EmptyContext /\ EmptyFacts
    /\ Len(gDocs) = 2 /\ gDocs[1].content # <<>> /\ format_docs(gDocs) # <<>>
    /\ gKg.kind = "list" /\ gKg.triples # <<>>
    /\ gQuestion # <<>> /\ gLang = "Tamil"
    /\ gOut.answer = INSUFFICIENT_MSG /\ gOut.llmCalls = 0

\* The call reached the answer-generation capability (rag_chain.py:195).
LlmInvoked == gOut.called /\ gOut.llmCalls = 1

\* C11: generate_answer_with_validation never surfaces a raw exception: for
\* any behaviour of the answer-generation capability, a raising one included,
\* the call returns a triple (answer, confidence, image paths).
C11_NeverSurfacesException == gOut.called => ~gOut.raised

\* The answer, lower-cased, contains one of the five refusal phrases.
Refuses(answer) ==
    \E ph \in { <<"n","o","t"," ","r","e","l","a","t","e","d"," ","t","o">>,
                <<"d","o","n","'","t"," ","k","n","o","w"," ","b","a","s","e","d"," ","o","n">>,
                <<"c","a","n","n","o","t"," ","a","n","s","w","e","r">>,
                <<"n","o","t"," ","i","n"," ","t","h","e"," ","d","o","c","u","m","e","n","t">>,
                <<"n","o"," ","i","n","f","o","r","m","a","t","i","o","n"," ","a","b","o","u","t">> } :
        IsSubstring(ph, ToLower(answer))

\* 0.4 + 0.1 * chunks + context length / 5000, in units of 1/5000.
ConfidenceSum == 2000 + 500 * Len(gDocs) + Len(format_docs(gDocs))

\* C13: the returned confidence lies in [0, 1]; when the answer-generation
\* capability was invoked and answered, it is 0.2 if the answer contains a
\* refusal phrase (whatever its letter case) and otherwise
\* min(1.0, 0.4 + 0.1 * number of chunks + context length / 5000).
C13_ConfidenceFormula ==
    (gOut.called /\ ~gOut.raised) =>
        /\ 0 <= gOut.confidence /\ gOut.confidence <= 5000
        /\ LlmInvoked =>
              gOut.confidence = (IF Refuses(gOut.answer) THEN 1000
                                 ELSE IF ConfidenceSum < 5000 THEN ConfidenceSum
                                 ELSE 5000)

\* The sum passes 1.0 and the confidence is capped.
C13_Witness ==
    /\ LlmInvoked /\ ~gOut.raised /\ ~Refuses(gOut.answer)
    /\ ConfidenceSum > 5000 /\ gOut.confidence = 5000


=============================================================================
